---- MODULE Spec2Model ----
(***************************************************************************)
(* Model of the reinforcement-learning preference handler of klarita       *)
(* (klarita_backend/enhanced_rl_handler.py): the Q-value store QTable, the *)
(* handler EnhancedRLHandler with its pending (last_state, last_action)    *)
(* attributes, the reward computation and the pickle snapshot.             *)
(*                                                                         *)
(* Numbers.  Q-values and rewards are Python floats.  They are modelled as *)
(* fixed-point numbers: the integer x stands for x / QScale.  Sums and     *)
(* differences are exact, a product with a decimal constant is rounded to  *)
(* the nearest representable value, as the float product is.               *)
(*                                                                         *)
(* Dictionaries.  A Python dict is modelled as the sequence of its entries *)
(* [k |-> key, v |-> value] in insertion order, because max(d.keys(), ...) *)
(* returns the first maximal key in that order.  A defaultdict inserts the *)
(* default value on every read of a missing key.                           *)
(*                                                                         *)
(* Objects.  An object whose attributes are tested with hasattr is         *)
(* modelled by the set (or record) of the attributes it has.               *)
(***************************************************************************)
EXTENDS Integers, Sequences, FiniteSets, TLC

VARIABLES q_table, attrs, q_table_pkl, now, op, arg, ret, exc

vars == <<q_table, attrs, q_table_pkl, now, op, arg, ret, exc>>

(***************************************************************************)
(* Bounds of the model.                                                    *)
(***************************************************************************)
MaxCandidates == 2
MaxUpdates == 2
MaxPrior == 2
MaxStreak == 10
MaxConvUpdates == 120
MaxRows == 2
MaxWords == 2
MaxTasks == 5
MaxBoundUpdates == 1500

(***************************************************************************)
(* Program constants (enhanced_rl_handler.py lines 18-22).                 *)
(* LEARNING_RATE = 0.1 = 1/10, DISCOUNT_FACTOR = 0.95 = 95/100.            *)
(***************************************************************************)
LEARNING_RATE_DEN == 10
DISCOUNT_FACTOR_NUM == 95
DISCOUNT_FACTOR_DEN == 100
STATE_HISTORY_SIZE == 50

QScale == 100 * 100

\* n / d rounded to the nearest integer (d > 0)
RoundDiv(n, d) == (2 * n + d) \div (2 * d)

\* x * 0.1
TimesLearningRate(x) == RoundDiv(x, LEARNING_RATE_DEN)

\* x * 0.95
TimesDiscountFactor(x) == RoundDiv(x * DISCOUNT_FACTOR_NUM, DISCOUNT_FACTOR_DEN)

Min2(a, b) == IF a <= b THEN a ELSE b

Max2(a, b) == IF a >= b THEN a ELSE b

(***************************************************************************)
(* dict / defaultdict                                                      *)
(***************************************************************************)
Entry(key, val) == [k |-> key, v |-> val]

DictKeys(d) == {d[i].k : i \in 1..Len(d)}

DictHas(d, key) == \E i \in 1..Len(d) : d[i].k = key

DictGet(d, key) == d[CHOOSE i \in 1..Len(d) : d[i].k = key].v

DictSet(d, key, val) ==
    IF DictHas(d, key)
    THEN [i \in 1..Len(d) |-> IF d[i].k = key THEN Entry(key, val) ELSE d[i]]
    ELSE Append(d, Entry(key, val))

\* defaultdict.__getitem__: the dict after a read of key (default inserted)
DefaultTouch(d, key, default) ==
    IF DictHas(d, key) THEN d ELSE Append(d, Entry(key, default))

DictValues(d) == {d[i].v : i \in 1..Len(d)}

SetMax(S) == CHOOSE x \in S : \A y \in S : y <= x

\* max(d.keys(), key=...) with min in place of max
MinKey(d) ==
    d[CHOOSE i \in 1..Len(d) :
        /\ \A j \in 1..Len(d) : d[j].v >= d[i].v
        /\ \A j \in 1..(i - 1) : d[j].v > d[i].v].k

\* max(d.keys(), key=lambda k: d[k]): the first key holding the largest value
MaxKey(d) ==
    d[CHOOSE i \in 1..Len(d) :
        /\ \A j \in 1..Len(d) : d[j].v <= d[i].v
        /\ \A j \in 1..(i - 1) : d[j].v < d[i].v].k

(***************************************************************************)
(* RLState and RLAction.  to_key renders the fields, joined by "_", in a   *)
(* fixed order: the key is modelled as the tuple of the rendered fields.   *)
(***************************************************************************)
RLState(user_id, time_of_day, task_category, session_complexity) ==
    [user_id |-> user_id, time_of_day |-> time_of_day,
     task_category |-> task_category,
     session_complexity |-> session_complexity, user_mood |-> "neutral"]

StateToKey(state) ==
    <<state.user_id, state.time_of_day, state.task_category,
      state.session_complexity, state.user_mood>>

RLAction(breakdown_style, task_duration, communication_style, task_count) ==
    [breakdown_style |-> breakdown_style, task_duration |-> task_duration,
     communication_style |-> communication_style, task_count |-> task_count]

ActionToKey(action) ==
    <<action.breakdown_style, action.task_duration,
      action.communication_style, action.task_count>>

breakdown_styles == <<"detailed", "concise", "visual", "step-by-step">>

durations == <<15, 25, 45, 60>>

communication_styles == <<"encouraging", "direct", "gentle", "motivational">>

task_counts == <<3, 5, 7, 10>>

\* get_possible_actions: the cross product, in the order of the nested loops
get_possible_actions ==
    [i \in 1..(Len(breakdown_styles) * Len(durations)
                 * Len(communication_styles) * Len(task_counts)) |->
        RLAction(breakdown_styles[((i - 1) \div 64) + 1],
                 durations[(((i - 1) \div 16) % 4) + 1],
                 communication_styles[(((i - 1) \div 4) % 4) + 1],
                 task_counts[((i - 1) % 4) + 1])]

(***************************************************************************)
(* Inputs of the calls made on the store and the handler.                  *)
(***************************************************************************)
CurrentHour == 5 + 5

\* two users: the keys of one are foreign to the other
Users == {1, 2}

StatePool == {RLState(u, CurrentHour, "general", "medium") : u \in Users}

\* two of the 256 actions: one can be stored and the other not, or both
ActionPool == {get_possible_actions[i] : i \in {1, 2}}

CandidateLists ==
    UNION {[1..n -> ActionPool] : n \in 0..MaxCandidates}

NextStates == {<<>>} \cup {<<s>> : s \in StatePool}

RewardPool == {0 - QScale, QScale}

(***************************************************************************)
(* QTable                                                                  *)
(***************************************************************************)
QTableNew == [q_values |-> <<>>, state_visits |-> <<>>, action_history |-> <<>>]

\* self.q_values[state_key][action_key] on the nested defaultdict:
\* the dict after the read (both defaults inserted when missing)
QValuesTouch(q_values, state_key, action_key) ==
    LET q1 == DefaultTouch(q_values, state_key, <<>>)
    IN  DictSet(q1, state_key, DefaultTouch(DictGet(q1, state_key), action_key, 0))

\* get_q_value: the returned value and the table after the call
get_q_value(t, state, action) ==
    LET q1 == QValuesTouch(t.q_values, StateToKey(state), ActionToKey(action))
    IN  [value |-> DictGet(DictGet(q1, StateToKey(state)), ActionToKey(action)),
         table |-> [t EXCEPT !.q_values = q1]]

\* a deque without maxlen
DequeAppend_unbounded(dq, x) == Append(dq, x)

\* deque(maxlen=STATE_HISTORY_SIZE).append
DequeAppend(dq, x) ==
    IF Len(dq) < STATE_HISTORY_SIZE THEN Append(dq, x) ELSE Append(Tail(dq), x)

\* the temporal-difference rule of update_q_value; has_next: next_state given
new_q_no_target(current_q, reward, has_next, max_next_q) ==
    IF has_next
    THEN current_q + TimesLearningRate(reward + TimesDiscountFactor(max_next_q))
    ELSE current_q + TimesLearningRate(reward)

new_q(current_q, reward, has_next, max_next_q) ==
    IF has_next
    THEN current_q + TimesLearningRate(
             reward + TimesDiscountFactor(max_next_q) - current_q)
    ELSE current_q + TimesLearningRate(reward - current_q)

\* self.q_values[state_key][action_key] = new_q
store_q_decay(q_values, state_key, action_key, value) ==
    DictSet(q_values, state_key,
        [i \in 1..Len(DictGet(q_values, state_key)) |->
            LET e == DictGet(q_values, state_key)[i]
            IN  IF e.k = action_key THEN Entry(e.k, value)
                ELSE Entry(e.k, TimesDiscountFactor(e.v))])

store_q(q_values, state_key, action_key, value) ==
    DictSet(q_values, state_key,
            DictSet(DictGet(q_values, state_key), action_key, value))

\* update_q_value without the increment of state_visits
update_q_value_no_visit(t, state, action, reward, next_state, timestamp) ==
    LET state_key == StateToKey(state)
        action_key == ActionToKey(action)
        q1 == QValuesTouch(t.q_values, state_key, action_key)
        current_q == DictGet(DictGet(q1, state_key), action_key)
        q2 == IF next_state # <<>>
              THEN DefaultTouch(q1, StateToKey(next_state[1]), <<>>)
              ELSE q1
        max_next_q ==
            IF DictGet(q2, StateToKey(next_state[1])) # <<>>
            THEN SetMax(DictValues(DictGet(q2, StateToKey(next_state[1]))))
            ELSE 0
        q3 == store_q(q2, state_key, action_key,
                      new_q(current_q, reward, next_state # <<>>,
                            IF next_state # <<>> THEN max_next_q ELSE 0))
    IN  [q_values |-> q3,
         state_visits |-> t.state_visits,
         action_history |->
             DequeAppend(t.action_history,
                 [state |-> state_key, action |-> action_key,
                  reward |-> reward, timestamp |-> timestamp])]

\* update_q_value; next_state is <<>> for None and <<s>> for a state s
update_q_value(t, state, action, reward, next_state, timestamp) ==
    LET state_key == StateToKey(state)
        action_key == ActionToKey(action)
        q1 == QValuesTouch(t.q_values, state_key, action_key)
        current_q == DictGet(DictGet(q1, state_key), action_key)
        q2 == IF next_state # <<>>
              THEN DefaultTouch(q1, StateToKey(next_state[1]), <<>>)
              ELSE q1
        max_next_q ==
            IF DictGet(q2, StateToKey(next_state[1])) # <<>>
            THEN SetMax(DictValues(DictGet(q2, StateToKey(next_state[1]))))
            ELSE 0
        q3 == store_q(q2, state_key, action_key,
                      new_q(current_q, reward, next_state # <<>>,
                            IF next_state # <<>> THEN max_next_q ELSE 0))
        v1 == DefaultTouch(t.state_visits, state_key, 0)
    IN  [q_values |-> q3,
         state_visits |-> DictSet(v1, state_key, DictGet(v1, state_key) + 1),
         action_history |->
             DequeAppend(t.action_history,
                 [state |-> state_key, action |-> action_key,
                  reward |-> reward, timestamp |-> timestamp])]

\* np.random.choice over the whole action space instead of possible_actions
random_choice_any(possible_actions, pick) ==
    IF possible_actions = <<>>
    THEN [raised |-> "ValueError", action |-> <<>>]
    ELSE [raised |-> "none",
          action |-> <<get_possible_actions[Len(get_possible_actions) + 1 - pick]>>]

\* np.random.choice(possible_actions); pick: the index drawn
random_choice(possible_actions, pick) ==
    IF possible_actions = <<>>
    THEN [raised |-> "ValueError", action |-> <<>>]
    ELSE [raised |-> "none", action |-> <<possible_actions[pick]>>]

\* get_best_action without the final np.random.choice: None is returned
\* when no candidate has the best key
get_best_action_no_fallback(t, state, possible_actions, explore, pick) ==
    LET state_key == StateToKey(state)
        exploit == /\ DictHas(t.q_values, state_key)
                   /\ DictGet(t.q_values, state_key) # <<>>
        best_action_key == MaxKey(DictGet(t.q_values, state_key))
        matches == {i \in 1..Len(possible_actions) :
                        ActionToKey(possible_actions[i]) = best_action_key}
    IN  IF explore THEN random_choice(possible_actions, pick)
        ELSE IF exploit /\ matches # {}
             THEN [raised |-> "none",
                   action |-> <<possible_actions[
                       CHOOSE i \in matches : \A j \in matches : i <= j]>>]
             ELSE IF exploit THEN [raised |-> "none", action |-> <<>>]
             ELSE random_choice(possible_actions, pick)

\* get_best_action.  explore: np.random.random() < EPSILON.  The table is
\* only read.
get_best_action(t, state, possible_actions, explore, pick) ==
    LET state_key == StateToKey(state)
        exploit == /\ DictHas(t.q_values, state_key)
                   /\ DictGet(t.q_values, state_key) # <<>>
        best_action_key == MaxKey(DictGet(t.q_values, state_key))
        matches == {i \in 1..Len(possible_actions) :
                        ActionToKey(possible_actions[i]) = best_action_key}
    IN  IF explore THEN random_choice(possible_actions, pick)
        ELSE IF exploit /\ matches # {}
             THEN [raised |-> "none",
                   action |-> <<possible_actions[
                       CHOOSE i \in matches : \A j \in matches : i <= j]>>]
             ELSE random_choice(possible_actions, pick)

(***************************************************************************)
(* The ORM classes of models.py, by the attributes they declare.           *)
(***************************************************************************)
\* Task with the columns the handler reads (user_id, created_at, completed)
TaskColumns_read_by_handler ==
    {"id", "session_id", "title", "description", "estimated_duration",
     "user_modified_duration", "status", "priority", "session",
     "user_id", "created_at", "completed"}

TaskColumns ==
    {"id", "session_id", "title", "description", "estimated_duration",
     "user_modified_duration", "status", "priority", "session"}

UserColumns ==
    {"id", "email", "hashed_password", "created_at", "preferences",
     "sessions", "gamification", "memories"}

(***************************************************************************)
(* pickle.  QTable.q_values is a defaultdict whose default_factory is a    *)
(* lambda local to QTable.__init__; pickle cannot serialise it and dump    *)
(* raises before any byte is written.  A byte string is <<>> (empty) or   *)
(* <<t>> (the serialisation of table t).                                   *)
(***************************************************************************)
QValuesDefaultFactory == "lambda"

PickleDump(t) ==
    IF QValuesDefaultFactory = "lambda"
    THEN [raised |-> "AttributeError", bytes |-> <<>>]
    ELSE [raised |-> "none", bytes |-> <<t>>]

PickleLoad(bytes) ==
    IF bytes = <<>>
    THEN [raised |-> "EOFError", table |-> QTableNew]
    ELSE [raised |-> "none", table |-> bytes[1]]

FileAbsent == [exists |-> FALSE, bytes |-> <<>>]

\* save_q_table: the file q_table.pkl after the call.  open_ok: open(.., 'wb')
\* succeeds (and truncates the file).  Every exception is caught and printed.
save_q_table(t, file, open_ok) ==
    IF ~open_ok THEN file
    ELSE [exists |-> TRUE, bytes |-> PickleDump(t).bytes]

\* load_q_table: the table of the handler after the call, t being the table
\* it held before.  read_ok: open(.., 'rb') and the read succeed.
load_q_table(t, file, read_ok) ==
    IF ~file.exists THEN t
    ELSE IF ~read_ok \/ PickleLoad(file.bytes).raised # "none" THEN QTableNew
    ELSE PickleLoad(file.bytes).table

(***************************************************************************)
(* EnhancedRLHandler                                                       *)
(***************************************************************************)
\* EnhancedRLHandler() with a load_q_table that lets the exception through
EnhancedRLHandler_uncaught(file, read_ok) ==
    [raised |-> IF ~file.exists THEN "none"
                ELSE IF ~read_ok THEN "OSError"
                ELSE PickleLoad(file.bytes).raised,
     q_table |-> load_q_table(QTableNew, file, read_ok)]

\* EnhancedRLHandler(): __init__ makes an empty QTable, then load_q_table
EnhancedRLHandler(file, read_ok) ==
    [raised |-> "none", q_table |-> load_q_table(QTableNew, file, read_ok)]

\* a goal text is modelled by the set of keywords its lower-cased text contains
GoalPool == {{}, {"work"}}

\* the text of a goal is the sequence of its characters
\* str.lower, on the letters the goal texts use
LowerChar(c) ==
    CASE c = "W" -> "w"
      [] c = "S" -> "s"
      [] OTHER -> c

Lower(text) == [i \in 1..Len(text) |-> LowerChar(text[i])]

\* x in text: x is a substring of text
Contains(text, x) ==
    \E i \in 0..(Len(text) - Len(x)) : SubSeq(text, i + 1, i + Len(x)) = x

\* the keywords get_current_state looks for, as texts
KeywordText ==
    [work |-> <<"w", "o", "r", "k">>,
     study |-> <<"s", "t", "u", "d", "y">>,
     personal |-> <<"p", "e", "r", "s", "o", "n", "a", "l">>,
     exercise |-> <<"e", "x", "e", "r", "c", "i", "s", "e">>]

\* the keywords kw for which  kw in goal.lower()  holds
goal_keywords(text) ==
    {kw \in DOMAIN KeywordText : Contains(Lower(text), KeywordText[kw])}

\* the words of the goal texts: Work, homework, Study, personal, exercise,
\* health, plan
GoalWords ==
    {<<"W", "o", "r", "k">>,
     <<"h", "o", "m", "e", "w", "o", "r", "k">>,
     <<"S", "t", "u", "d", "y">>,
     KeywordText["personal"],
     KeywordText["exercise"],
     <<"h", "e", "a", "l", "t", "h">>,
     <<"p", "l", "a", "n">>}

RECURSIVE JoinWords(_)
JoinWords(words) ==
    IF words = <<>> THEN <<>>
    ELSE IF Len(words) = 1 THEN words[1]
    ELSE words[1] \o <<" ">> \o JoinWords(Tail(words))

\* the goal texts: up to MaxWords words separated by blanks
GoalTexts ==
    {JoinWords(w) : w \in UNION {[1..n -> GoalWords] : n \in 0..MaxWords}}

\* the category chain with study tested before work
task_category_study_first(goal) ==
    IF "study" \in goal THEN "study"
    ELSE IF "work" \in goal THEN "work"
    ELSE IF "personal" \in goal THEN "personal"
    ELSE IF "exercise" \in goal THEN "health"
    ELSE "general"

\* the if/elif chain of lines 135-143, on the keywords the text contains
task_category(goal) ==
    IF "work" \in goal THEN "work"
    ELSE IF "study" \in goal THEN "study"
    ELSE IF "personal" \in goal THEN "personal"
    ELSE IF "exercise" \in goal THEN "health"
    ELSE "general"

\* recent_tasks: the tasks of the 7-day window, each by its completed flag
session_complexity(recent_tasks) ==
    LET n == Len(recent_tasks)
        c == Cardinality({i \in 1..n : recent_tasks[i]})
    IN  IF n = 0 THEN "medium"                     \* avg_completion_rate = 0.7
        ELSE IF 10 * c > 8 * n THEN "high"
        ELSE IF 10 * c < 5 * n THEN "low"
        ELSE "medium"

\* get_current_state.  The query names models.Task.user_id and
\* models.Task.created_at; the list comprehension reads t.completed.
get_current_state(user_id, goal, hour, recent_tasks) ==
    IF ~({"user_id", "created_at"} \subseteq TaskColumns)
    THEN [raised |-> "AttributeError", state |-> <<>>]
    ELSE IF recent_tasks # <<>> /\ "completed" \notin TaskColumns
    THEN [raised |-> "AttributeError", state |-> <<>>]
    ELSE [raised |-> "none",
          state |-> <<RLState(user_id, hour, task_category(goal),
                              session_complexity(recent_tasks))>>]

\* calculate_reward.  session_found / user_found: the query returns a row;
\* completed, streak_days: the values of the attributes of those names, if
\* the rows have them.
calculate_reward(session_found, completed, user_found, streak_days, rating) ==
    LET base_reward == (rating - 3) * (QScale \div 2)
        completion_bonus ==
            IF "completed" \in TaskColumns /\ completed
            THEN QScale \div 2 ELSE 0
        time_bonus == 0
        streak_bonus ==
            IF user_found /\ "streak_days" \in UserColumns /\ streak_days > 0
            THEN Min2(streak_days * (QScale \div 10), QScale \div 2)
            ELSE 0
        penalty == IF rating <= 2 THEN 0 - (QScale \div 2) ELSE 0
        total_reward ==
            base_reward + completion_bonus + time_bonus + streak_bonus + penalty
    IN  IF ~session_found THEN [raised |-> "none", value |-> 0]
        ELSE IF "user_id" \notin TaskColumns
        THEN [raised |-> "AttributeError", value |-> 0]
        ELSE [raised |-> "none",
              value |-> Max2(0 - QScale, Min2(QScale, total_reward))]

\* instance attributes of the handler: a dict of last_state, last_action
hasattr(obj, name) == DictHas(obj, name)

delattr(obj, name) == SelectSeq(obj, LAMBDA e : e.k # name)

\* recommend_action: the attributes after the call, the exception raised and
\* the action returned
recommend_action(t, obj, user_id, goal, hour, recent_tasks, explore, pick) ==
    LET current_state == get_current_state(user_id, goal, hour, recent_tasks)
        best_action == get_best_action(t, current_state.state[1],
                                       get_possible_actions, explore, pick)
    IN  IF current_state.raised # "none"
        THEN [raised |-> current_state.raised, attrs |-> obj, action |-> <<>>]
        ELSE IF best_action.raised # "none"
        THEN [raised |-> best_action.raised, attrs |-> obj, action |-> <<>>]
        ELSE [raised |-> "none",
              attrs |-> DictSet(DictSet(obj, "last_state", current_state.state[1]),
                                "last_action", best_action.action[1]),
              action |-> best_action.action]

\* process_feedback past its guard (lines 220-236): the table, the attributes
\* and the file after the call, the exception raised
apply_feedback(t, obj, file, user_id, session_found, completed, user_found, streak_days, rating, hour, recent_tasks, open_ok, timestamp) ==
    LET reward == calculate_reward(session_found, completed, user_found,
                                   streak_days, rating)
        current_state == get_current_state(user_id, {}, hour, recent_tasks)
        t1 == update_q_value(t, DictGet(obj, "last_state"),
                             DictGet(obj, "last_action"), reward.value,
                             current_state.state, timestamp)
        unchanged(e) == [raised |-> e, table |-> t, attrs |-> obj,
                         file |-> file, updated |-> FALSE]
    IN  IF reward.raised # "none" THEN unchanged(reward.raised)
        ELSE IF current_state.raised # "none" THEN unchanged(current_state.raised)
        ELSE [raised |-> "none", table |-> t1,
              attrs |-> delattr(delattr(obj, "last_state"), "last_action"),
              file |-> save_q_table(t1, file, open_ok), updated |-> TRUE]

\* process_feedback without the hasattr guard: self.last_state is read
process_feedback_unguarded(t, obj, file, user_id, session_found, completed, user_found, streak_days, rating, hour, recent_tasks, open_ok, timestamp) ==
    IF ~hasattr(obj, "last_state") \/ ~hasattr(obj, "last_action")
    THEN [raised |-> "AttributeError", table |-> t, attrs |-> obj,
          file |-> file, updated |-> FALSE]
    ELSE apply_feedback(t, obj, file, user_id, session_found, completed,
                        user_found, streak_days, rating, hour, recent_tasks,
                        open_ok, timestamp)

\* process_feedback (the method)
process_feedback(t, obj, file, user_id, session_found, completed, user_found, streak_days, rating, hour, recent_tasks, open_ok, timestamp) ==
    IF ~hasattr(obj, "last_state") \/ ~hasattr(obj, "last_action")
    THEN [raised |-> "none", table |-> t, attrs |-> obj,
          file |-> file, updated |-> FALSE]
    ELSE apply_feedback(t, obj, file, user_id, session_found, completed,
                        user_found, streak_days, rating, hour, recent_tasks,
                        open_ok, timestamp)

\* schemas.PersonalizedInsight, by its fields without a default
PersonalizedInsightRequired == {"type", "title", "description", "confidence"}

\* PersonalizedInsight(**kwargs): pydantic validates the keyword arguments;
\* confidence is Field(..., ge=0.0, le=1.0); unknown keywords are ignored
PersonalizedInsight(kwargs) ==
    IF ~(PersonalizedInsightRequired \subseteq DOMAIN kwargs)
    THEN [raised |-> "ValidationError", value |-> <<>>]
    ELSE IF kwargs.confidence < 0 \/ kwargs.confidence > QScale
    THEN [raised |-> "ValidationError", value |-> <<>>]
    ELSE [raised |-> "none",
          value |-> <<[f \in PersonalizedInsightRequired |-> kwargs[f]]>>]

\* generate_rl_insights: the insights returned, the exception raised and the
\* table after the call (reading state_visits[state_key] inserts the default
\* 0).  An action key always splits into four parts.
generate_rl_insights(t, user_id) ==
    LET user_states ==
            SelectSeq(t.q_values, LAMBDA e : e.k[1] = user_id /\ e.v # <<>>)
        best_patterns ==
            [i \in 1..Len(user_states) |->
                Entry(user_states[i].k,
                      [action |-> MaxKey(user_states[i].v),
                       q_value |-> DictGet(user_states[i].v,
                                           MaxKey(user_states[i].v))])]
        best_overall ==
            best_patterns[CHOOSE i \in 1..Len(best_patterns) :
                /\ \A j \in 1..Len(best_patterns) :
                       best_patterns[j].v.q_value <= best_patterns[i].v.q_value
                /\ \A j \in 1..(i - 1) :
                       best_patterns[j].v.q_value < best_patterns[i].v.q_value].v
        RECURSIVE TouchAll(_, _)
        TouchAll(visits, i) ==
            IF i > Len(user_states) THEN visits
            ELSE TouchAll(DefaultTouch(visits, user_states[i].k, 0), i + 1)
        insight ==
            PersonalizedInsight(
                [id |-> <<"rl_best_pattern", user_id>>,
                 insight_type |-> "pattern",
                 title |-> "Your Most Successful Pattern",
                 description |-> <<best_overall.action[1], best_overall.action[2],
                                   best_overall.action[3]>>,
                 confidence |-> Min2(best_overall.q_value * 100, 95 * QScale),
                 actionable_tip |-> best_overall.action[1],
                 data_source |-> "reinforcement_learning"])
    IN  [insights |-> IF best_patterns = <<>> THEN <<>> ELSE insight.value,
         raised |-> IF best_patterns = <<>> THEN "none" ELSE insight.raised,
         table |-> [t EXCEPT !.state_visits = TouchAll(t.state_visits, 1)]]

(***************************************************************************)
(* The state machine.  q_table, attrs: the handler rl_handler (its table   *)
(* and its instance attributes); q_table_pkl: the file q_table.pkl; now:   *)
(* the clock behind datetime.now(); op, arg, ret, exc: the last call made, *)
(* its arguments, the value it returned and the exception it raised.       *)
(***************************************************************************)
Ratings == {0, 5, 6}

SessionIds == 0..1

StreakPool == {0, MaxStreak}

TaskWindows == {<<>>, <<TRUE>>}

Init ==
    /\ q_table = load_q_table(QTableNew, FileAbsent, TRUE)
    /\ attrs = <<>>
    /\ q_table_pkl = FileAbsent
    /\ now = 0
    /\ op = "init"
    /\ arg = <<>>
    /\ ret = <<>>
    /\ exc = "none"

\* rl_handler.q_table.get_q_value(state, action)
GetQValueCall ==
    \E state \in StatePool, action \in ActionPool :
        /\ q_table' = get_q_value(q_table, state, action).table
        /\ op' = "get_q_value"
        /\ arg' = [state |-> state, action |-> action]
        /\ ret' = get_q_value(q_table, state, action).value
        /\ exc' = "none"
        /\ UNCHANGED <<attrs, q_table_pkl, now>>

\* rl_handler.q_table.update_q_value(state, action, reward, next_state)
UpdateQValueCall ==
    \E state \in StatePool, action \in ActionPool, reward \in RewardPool,
       next_state \in NextStates :
        /\ q_table' = update_q_value(q_table, state, action, reward, next_state, now)
        /\ now' = now + 1
        /\ op' = "update_q_value"
        /\ arg' = [state |-> state, action |-> action, reward |-> reward,
                   next_state |-> next_state]
        /\ ret' = <<>>
        /\ exc' = "none"
        /\ UNCHANGED <<attrs, q_table_pkl>>

\* rl_handler.q_table.get_best_action(state, possible_actions)
GetBestActionCall ==
    \E state \in StatePool, possible_actions \in CandidateLists,
       explore \in BOOLEAN :
      \E pick \in 1..Max2(1, Len(possible_actions)) :
        /\ op' = "get_best_action"
        /\ arg' = [state |-> state, possible_actions |-> possible_actions,
                   explore |-> explore]
        /\ ret' = get_best_action(q_table, state, possible_actions, explore, pick).action
        /\ exc' = get_best_action(q_table, state, possible_actions, explore, pick).raised
        /\ UNCHANGED <<q_table, attrs, q_table_pkl, now>>

\* rl_handler.recommend_action(db, user_id, goal)
RecommendActionCall ==
    \E user_id \in Users, goal \in GoalPool, recent_tasks \in TaskWindows :
      \E explore \in IF get_current_state(user_id, goal, CurrentHour,
                                          recent_tasks).raised = "none"
                     THEN BOOLEAN ELSE {FALSE},
         pick \in IF get_current_state(user_id, goal, CurrentHour,
                                       recent_tasks).raised = "none"
                  THEN 1..Len(get_possible_actions) ELSE {1} :
        LET r == recommend_action(q_table, attrs, user_id, goal, CurrentHour,
                                  recent_tasks, explore, pick)
        IN  /\ attrs' = r.attrs
            /\ op' = "recommend_action"
            /\ arg' = [user_id |-> user_id, goal |-> goal]
            /\ ret' = r.action
            /\ exc' = r.raised
            /\ UNCHANGED <<q_table, q_table_pkl, now>>

\* rl_handler.process_feedback(db, user_id, session_id, rating).  The rows
\* the queries return, the clock and the outcome of open() are read only
\* when a proposal is pending.
FeedbackStep(name, user_id, session_id, rating) ==
    LET pending == hasattr(attrs, "last_state") /\ hasattr(attrs, "last_action")
        Read(S) == IF pending THEN S ELSE {CHOOSE x \in S : TRUE}
    IN  \E session_found \in Read(BOOLEAN), completed \in Read(BOOLEAN),
           user_found \in Read(BOOLEAN), streak_days \in Read(StreakPool),
           recent_tasks \in Read(TaskWindows), open_ok \in Read(BOOLEAN) :
            LET r == process_feedback(q_table, attrs, q_table_pkl, user_id,
                                      session_found, completed, user_found,
                                      streak_days, rating, CurrentHour,
                                      recent_tasks, open_ok, now)
            IN  /\ r.updated => now < MaxUpdates
                /\ q_table' = r.table
                /\ attrs' = r.attrs
                /\ q_table_pkl' = r.file
                /\ now' = IF r.updated THEN now + 1 ELSE now
                /\ op' = name
                /\ arg' = [user_id |-> user_id, session_id |-> session_id,
                           rating |-> rating]
                /\ ret' = <<>>
                /\ exc' = r.raised

\* (the callers of the method pass the session_id of a stored row)
ProcessFeedbackCall ==
    \E user_id \in Users, session_id \in SessionIds \ {0}, rating \in Ratings :
        FeedbackStep("process_feedback", user_id, session_id, rating)

\* the module function process_feedback(db, user_id, session_id, rating);
\* session_id 0 and rating 0 stand for the falsy arguments (None, 0)
ModuleProcessFeedbackCall ==
    \E user_id \in Users, session_id \in SessionIds, rating \in Ratings :
        IF session_id # 0 /\ rating # 0
        THEN FeedbackStep("module_process_feedback", user_id, session_id, rating)
        ELSE /\ op' = "module_process_feedback"
             /\ arg' = [user_id |-> user_id, session_id |-> session_id,
                        rating |-> rating]
             /\ ret' = <<>>
             /\ exc' = "none"
             /\ UNCHANGED <<q_table, attrs, q_table_pkl, now>>

\* rl_handler.save_q_table()
SaveQTableCall ==
    \E open_ok \in BOOLEAN :
        /\ q_table_pkl' = save_q_table(q_table, q_table_pkl, open_ok)
        /\ op' = "save_q_table"
        /\ arg' = [open_ok |-> open_ok]
        /\ ret' = <<>>
        /\ exc' = "none"
        /\ UNCHANGED <<q_table, attrs, now>>

\* rl_handler.generate_rl_insights(db, user_id)
GenerateInsightsCall ==
    \E user_id \in Users :
        /\ q_table' = generate_rl_insights(q_table, user_id).table
        /\ op' = "generate_rl_insights"
        /\ arg' = [user_id |-> user_id]
        /\ ret' = generate_rl_insights(q_table, user_id).insights
        /\ exc' = generate_rl_insights(q_table, user_id).raised
        /\ UNCHANGED <<attrs, q_table_pkl, now>>

\* a fresh process imports the module: rl_handler = EnhancedRLHandler()
NewHandler ==
    \E read_ok \in BOOLEAN :
        /\ q_table' = EnhancedRLHandler(q_table_pkl, read_ok).q_table
        /\ attrs' = <<>>
        /\ op' = "EnhancedRLHandler"
        /\ arg' = [read_ok |-> read_ok]
        /\ ret' = <<>>
        /\ exc' = EnhancedRLHandler(q_table_pkl, read_ok).raised
        /\ UNCHANGED <<q_table_pkl, now>>

(***************************************************************************)
(* Spec: the handler of one process and its successors.  Calls arrive in   *)
(* any order; the store is also written directly (update_q_value), as any  *)
(* holder of rl_handler.q_table may.                                       *)
(***************************************************************************)
Next ==
    \/ now < MaxUpdates /\ UpdateQValueCall
    \/ RecommendActionCall
    \/ ProcessFeedbackCall
    \/ ModuleProcessFeedbackCall
    \/ SaveQTableCall
    \/ NewHandler

Spec == Init /\ [][Next]_vars

(***************************************************************************)
(* SpecStore: one call on the store, made on any table that at most        *)
(* MaxPrior earlier writes (updates, defaulting reads) have produced.      *)
(***************************************************************************)
RECURSIVE StoredTables(_)
StoredTables(n) ==
    IF n = 0 THEN {QTableNew}
    ELSE LET prev == StoredTables(n - 1)
         IN  prev
             \cup {update_q_value(t, s, a, r, ns, Len(t.action_history)) :
                      t \in prev, s \in StatePool, a \in ActionPool,
                      r \in RewardPool, ns \in NextStates}
             \cup {get_q_value(t, s, a).table :
                      t \in prev, s \in StatePool, a \in ActionPool}
             \cup {generate_rl_insights(t, u).table : t \in prev, u \in Users}

InitStore ==
    /\ q_table \in StoredTables(MaxPrior)
    /\ attrs = <<>>
    /\ q_table_pkl = FileAbsent
    /\ now = Len(q_table.action_history)
    /\ op = "init"
    /\ arg = <<>>
    /\ ret = <<>>
    /\ exc = "none"

NextStore ==
    /\ op = "init"
    /\ \/ GetQValueCall
       \/ UpdateQValueCall
       \/ GetBestActionCall
       \/ GenerateInsightsCall
       \/ SaveQTableCall

SpecStore == InitStore /\ [][NextStore]_vars

(***************************************************************************)
(* SpecReward: calculate_reward applied to every input of a bounded set.   *)
(***************************************************************************)
RewardRatings == 0..6

InitReward ==
    /\ q_table = QTableNew
    /\ attrs = <<>>
    /\ q_table_pkl = FileAbsent
    /\ now = 0
    /\ op = "input"
    /\ arg \in [session_found : BOOLEAN, completed : BOOLEAN,
                user_found : BOOLEAN, streak_days : 0..MaxStreak,
                rating : RewardRatings]
    /\ ret = <<>>
    /\ exc = "none"

\* rl_handler.calculate_reward(db, session_id, rating)
CalculateRewardCall ==
    /\ op = "input"
    /\ op' = "calculate_reward"
    /\ ret' = calculate_reward(arg.session_found, arg.completed, arg.user_found,
                               arg.streak_days, arg.rating).value
    /\ exc' = calculate_reward(arg.session_found, arg.completed, arg.user_found,
                               arg.streak_days, arg.rating).raised
    /\ UNCHANGED <<q_table, attrs, q_table_pkl, now, arg>>

SpecReward == InitReward /\ [][CalculateRewardCall]_vars

(***************************************************************************)
(* SpecConv: update_q_value(s, a, 1.0, None) repeated on one absent entry. *)
(***************************************************************************)
InitConv ==
    /\ q_table = QTableNew
    /\ attrs = <<>>
    /\ q_table_pkl = FileAbsent
    /\ now = 0
    /\ op = "init"
    /\ arg \in [state : StatePool, action : ActionPool]
    /\ ret = <<>>
    /\ exc = "none"

RepeatedUpdate ==
    /\ now < MaxConvUpdates
    /\ q_table' = update_q_value(q_table, arg.state, arg.action, QScale, <<>>, now)
    /\ now' = now + 1
    /\ op' = "update_q_value"
    /\ UNCHANGED <<attrs, q_table_pkl, arg, ret, exc>>

SpecConv == InitConv /\ [][RepeatedUpdate]_vars

(***************************************************************************)
(* SpecBound: a chain of update_q_value calls on one (state, action) pair  *)
(* with a reward at an end of the range calculate_reward clamps to and a   *)
(* next state that is absent, the state itself or another state.           *)
(***************************************************************************)
InitBound ==
    /\ q_table = QTableNew
    /\ attrs = <<>>
    /\ q_table_pkl = FileAbsent
    /\ now = 0
    /\ op = "init"
    /\ arg \in [state : StatePool, action : ActionPool, reward : RewardPool,
                next_state : NextStates]
    /\ ret = <<>>
    /\ exc = "none"

BoundedUpdate ==
    /\ now < MaxBoundUpdates
    /\ q_table' = update_q_value(q_table, arg.state, arg.action, arg.reward,
                                 arg.next_state, now)
    /\ now' = now + 1
    /\ op' = "update_q_value"
    /\ UNCHANGED <<attrs, q_table_pkl, arg, ret, exc>>

SpecBound == InitBound /\ [][BoundedUpdate]_vars

(***************************************************************************)
(* nightly_rl_trainer.py.  The database is the record db:                  *)
(*   db.feedback[u].older   the number of session_feedback rows of user u  *)
(*                          between one and thirty days old (rating 3),    *)
(*   db.feedback[u].recent  the rows of user u of the last 24 hours, each  *)
(*                          [rating, task_found]; task_found: a Task row   *)
(*                          with id = session_id exists,                   *)
(*   db.fails               the users whose feedback queries raise.        *)
(* The trainer runs in a process of its own: rl_handler is the handler the *)
(* import of enhanced_rl_handler constructs.                               *)
(***************************************************************************)
min_interactions == 5

\* sqlalchemy.orm.Session (SessionLocal = sessionmaker(...)), by the
\* attributes the callers use that it has; func is a name of the sqlalchemy
\* package, not of a Session
SessionAttributes == {"query", "add", "commit", "refresh", "close"}

FeedbackRows == [rating : {2, 5}, task_found : BOOLEAN]

RowLists == UNION {[1..n -> FeedbackRows] : n \in 0..MaxRows}

Databases ==
    [feedback : [Users -> [older : {0, min_interactions - 1}, recent : RowLists]],
     fails : SUBSET Users]

\* the users in the order the grouped query yields them
UserList == [i \in 1..Cardinality(Users) |-> i]

\* COUNT(session_feedback.id) of the user
feedback_count(db, user_id) ==
    db.feedback[user_id].older + Len(db.feedback[user_id].recent)

\* get_users_for_training: db.func.count is read from the Session
get_users_for_training(db, min) ==
    IF "func" \notin SessionAttributes
    THEN [raised |-> "AttributeError", users |-> <<>>]
    ELSE [raised |-> "none",
          users |-> SelectSeq(UserList,
                              LAMBDA u : /\ feedback_count(db, u) > 0
                                         /\ feedback_count(db, u) >= min)]

\* analyze_user_patterns: {} is <<>>
analyze_user_patterns(db, user_id) ==
    LET recent == db.feedback[user_id].recent
        rated(P(_)) == Cardinality({i \in 1..Len(recent) : P(recent[i].rating)})
    IN  IF user_id \in db.fails
        THEN [raised |-> "OperationalError", patterns |-> <<>>]
        ELSE IF feedback_count(db, user_id) = 0
        THEN [raised |-> "none", patterns |-> <<>>]
        ELSE [raised |-> "none",
              patterns |-> <<[user_id |-> user_id,
                              total_sessions |-> feedback_count(db, user_id),
                              positive_feedback |-> rated(LAMBDA r : r >= 4),
                              negative_feedback |-> rated(LAMBDA r : r <= 2)]>>]

\* one round of the loop of train_user_rl_model (lines 101-119); acc: the
\* handler (table, attrs, file) and the counters of training_stats
feedback_round(acc, user_id, feedback, open_ok) ==
    LET r == process_feedback(acc.table, acc.attrs, acc.file, user_id,
                              feedback.task_found, FALSE, TRUE, 0,
                              feedback.rating, CurrentHour, <<>>, open_ok,
                              Len(acc.table.action_history))
        reward == calculate_reward(feedback.task_found, FALSE, TRUE, 0,
                                   feedback.rating)
        h == [acc EXCEPT !.table = r.table, !.attrs = r.attrs, !.file = r.file]
    IN  IF r.raised # "none" \/ reward.raised # "none"
        THEN [h EXCEPT !.errors = @ + 1]
        ELSE [h EXCEPT !.feedback_processed = @ + 1,
                       !.q_value_updates = @ + 1,
                       !.total_reward = @ + reward.value]

\* the loop from row i on (each round works on the value the previous one
\* produced, bound to a)
RECURSIVE replay_feedback(_, _, _, _, _)
replay_feedback(acc, user_id, rows, i, open_ok) ==
    IF i > Len(rows) THEN acc
    ELSE CHOOSE out \in
             {replay_feedback(feedback_round(a, user_id, rows[i], open_ok),
                              user_id, rows, i + 1, open_ok) : a \in {acc}} :
             TRUE

\* train_user_rl_model: the statistics returned and the handler after the call
train_user_rl_model(t, obj, file, db, user_id, open_ok) ==
    LET Result(acc) ==
            [raised |-> "none",
             stats |-> <<[user_id |-> user_id,
                          feedback_processed |-> acc.feedback_processed,
                          q_value_updates |-> acc.q_value_updates,
                          average_reward |->
                              IF acc.feedback_processed > 0
                              THEN RoundDiv(acc.total_reward,
                                            acc.feedback_processed)
                              ELSE 0,
                          errors |-> acc.errors]>>,
             table |-> acc.table, attrs |-> acc.attrs,
             file |-> save_q_table(acc.table, acc.file, open_ok)]
    IN  IF user_id \in db.fails
        THEN [raised |-> "OperationalError", stats |-> <<>>,
              table |-> t, attrs |-> obj, file |-> file]
        ELSE CHOOSE out \in
                 {Result(acc) : acc \in
                     {replay_feedback(
                          [table |-> t, attrs |-> obj, file |-> file,
                           feedback_processed |-> 0, q_value_updates |-> 0,
                           errors |-> 0, total_reward |-> 0],
                          user_id, db.feedback[user_id].recent, 1, open_ok)}} :
                 TRUE

RECURSIVE SumOf(_, _)
SumOf(f, i) == IF i = 0 THEN 0 ELSE f[i] + SumOf(f, i - 1)

\* generate_training_report; the system-wide statistics call
\* get_users_for_training(db, min_interactions=1)
generate_training_report(db, training_results) ==
    LET n == Len(training_results)
        col(name) == [i \in 1..n |-> training_results[i][name]]
    IN  IF training_results = <<>>
        THEN [raised |-> "none",
              report |-> [error |-> "No training results to report"]]
        ELSE IF get_users_for_training(db, 1).raised # "none"
        THEN [raised |-> get_users_for_training(db, 1).raised, report |-> <<>>]
        ELSE [raised |-> "none",
              report |->
                  [total_users_trained |-> n,
                   total_feedback_processed |-> SumOf(col("feedback_processed"), n),
                   total_q_value_updates |-> SumOf(col("q_value_updates"), n),
                   total_errors |-> SumOf(col("errors"), n),
                   successful_users |->
                       Cardinality({i \in 1..n : training_results[i].errors = 0}),
                   average_reward |-> RoundDiv(SumOf(col("average_reward"), n), n),
                   active_users |-> Len(get_users_for_training(db, 1).users),
                   user_results |-> training_results]]

\* dict.get(key, default) on a record
RecordGet(rec, key, default) ==
    IF key \in DOMAIN rec THEN rec[key] ELSE default

\* optimize_rl_parameters; {} is <<>>.  Rates and rewards are in units of
\* 1/QScale, so  avg > 0.7  is  10 * sum > 7 * n * QScale
optimize_rl_parameters(training_results) ==
    LET n == Len(training_results)
        success_rate == SumOf([i \in 1..n |->
                                  RecordGet(training_results[i],
                                            "success_rate", 0)], n)
        reward == SumOf([i \in 1..n |->
                            RecordGet(training_results[i],
                                      "average_reward", 0)], n)
        o1 == IF 10 * reward > 7 * n * QScale
              THEN DictSet(<<>>, "learning_rate", "decrease")
              ELSE IF 10 * reward < 3 * n * QScale
              THEN DictSet(<<>>, "learning_rate", "increase")
              ELSE <<>>
    IN  IF training_results = <<>> THEN <<>>
        ELSE IF 10 * success_rate > 8 * n * QScale
        THEN DictSet(o1, "epsilon", "decrease")
        ELSE IF 10 * success_rate < 4 * n * QScale
        THEN DictSet(o1, "epsilon", "increase")
        ELSE o1

\* one round of the loop of main (lines 217-238); acc: the handler and the
\* training_results collected
train_round(acc, db, user_id, open_ok) ==
    LET patterns == analyze_user_patterns(db, user_id)
        Round(r) ==
            IF patterns.raised # "none" \/ r.raised # "none"
            THEN [acc EXCEPT !.training_results =
                     Append(@, [user_id |-> user_id, feedback_processed |-> 0,
                                q_value_updates |-> 0, average_reward |-> 0,
                                errors |-> 1])]
            ELSE [table |-> r.table, attrs |-> r.attrs, file |-> r.file,
                  training_results |-> Append(acc.training_results, r.stats[1])]
    IN  CHOOSE out \in
            {Round(r) : r \in {train_user_rl_model(acc.table, acc.attrs,
                                                   acc.file, db, user_id,
                                                   open_ok)}} : TRUE

\* the loop from user i on
RECURSIVE train_users(_, _, _, _, _)
train_users(acc, db, users, i, open_ok) ==
    IF i > Len(users) THEN acc
    ELSE CHOOSE out \in
             {train_users(train_round(a, db, users[i], open_ok),
                          db, users, i + 1, open_ok) : a \in {acc}} : TRUE

\* main: the exception it raises, the report it writes (<<>>: none) and the
\* handler after the run.  report_ok: the report file can be written.
main(t, obj, file, db, open_ok, report_ok) ==
    LET users_for_training == get_users_for_training(db, min_interactions)
        result(e, rep, h) == [raised |-> e, report |-> rep, table |-> h.table,
                              attrs |-> h.attrs, file |-> h.file]
        before == [table |-> t, attrs |-> obj, file |-> file]
        Trained(acc) ==
            LET report == generate_training_report(db, acc.training_results)
            IN  IF report.raised # "none" THEN result(report.raised, <<>>, acc)
                ELSE IF ~report_ok THEN result("OSError", <<>>, acc)
                ELSE result("none", <<report.report>>, acc)
    IN  IF users_for_training.raised # "none"
        THEN result(users_for_training.raised, <<>>, before)
        ELSE IF users_for_training.users = <<>>
        THEN result("none", <<>>, before)
        ELSE CHOOSE out \in
                 {Trained(acc) : acc \in
                     {train_users([table |-> t, attrs |-> obj, file |-> file,
                                   training_results |-> <<>>],
                                  db, users_for_training.users, 1, open_ok)}} :
                 TRUE

(***************************************************************************)
(* SpecTrainer: one call of the trainer on any database of a bounded set,  *)
(* in a fresh process.                                                     *)
(***************************************************************************)
InitTrainer ==
    /\ q_table = load_q_table(QTableNew, FileAbsent, TRUE)
    /\ attrs = <<>>
    /\ q_table_pkl = FileAbsent
    /\ now = 0
    /\ op = "input"
    /\ arg \in [db : Databases]
    /\ ret = <<>>
    /\ exc = "none"

\* get_users_for_training(db)
GetUsersForTrainingCall ==
    /\ op' = "get_users_for_training"
    /\ ret' = get_users_for_training(arg.db, min_interactions).users
    /\ exc' = get_users_for_training(arg.db, min_interactions).raised
    /\ arg' = [db |-> arg.db]
    /\ UNCHANGED <<q_table, attrs, q_table_pkl, now>>

\* train_user_rl_model(db, user_id)
TrainUserCall ==
    \E user_id \in Users, open_ok \in BOOLEAN :
        \E r \in {train_user_rl_model(q_table, attrs, q_table_pkl, arg.db,
                                      user_id, open_ok)} :
            /\ q_table' = r.table
            /\ attrs' = r.attrs
            /\ q_table_pkl' = r.file
            /\ now' = Len(r.table.action_history)
            /\ op' = "train_user_rl_model"
            /\ arg' = [db |-> arg.db, user_id |-> user_id]
            /\ ret' = r.stats
            /\ exc' = r.raised

\* generate_training_report(db, training_results), on no results and on the
\* results of one user
GenerateTrainingReportCall ==
    \E training_results \in
           {<<>>} \cup {train_user_rl_model(q_table, attrs, q_table_pkl,
                                            arg.db, u, TRUE).stats :
                           u \in Users} :
      \E r \in {generate_training_report(arg.db, training_results)} :
        /\ op' = "generate_training_report"
        /\ arg' = [db |-> arg.db, training_results |-> training_results]
        /\ ret' = r.report
        /\ exc' = r.raised
        /\ UNCHANGED <<q_table, attrs, q_table_pkl, now>>

\* main()
MainCall ==
    \E open_ok \in BOOLEAN, report_ok \in BOOLEAN :
        \E r \in {main(q_table, attrs, q_table_pkl, arg.db, open_ok, report_ok)} :
            /\ q_table' = r.table
            /\ attrs' = r.attrs
            /\ q_table_pkl' = r.file
            /\ now' = Len(r.table.action_history)
            /\ op' = "main"
            /\ arg' = [db |-> arg.db]
            /\ ret' = r.report
            /\ exc' = r.raised

\* optimize_rl_parameters(training_results), on no results and on the
\* results of one user
OptimizeRLParametersCall ==
    \E training_results \in
           {<<>>} \cup {train_user_rl_model(q_table, attrs, q_table_pkl,
                                            arg.db, u, TRUE).stats :
                           u \in Users} :
        /\ op' = "optimize_rl_parameters"
        /\ arg' = [db |-> arg.db, training_results |-> training_results]
        /\ ret' = optimize_rl_parameters(training_results)
        /\ exc' = "none"
        /\ UNCHANGED <<q_table, attrs, q_table_pkl, now>>

NextTrainer ==
    /\ op = "input"
    /\ \/ GetUsersForTrainingCall
       \/ TrainUserCall
       \/ GenerateTrainingReportCall
       \/ OptimizeRLParametersCall
       \/ MainCall

SpecTrainer == InitTrainer /\ [][NextTrainer]_vars

(***************************************************************************)
(* SpecCategory: the category inference of get_current_state (lines        *)
(* 135-143) applied to every goal text of a bounded set.                   *)
(***************************************************************************)
InitCategory ==
    /\ q_table = QTableNew
    /\ attrs = <<>>
    /\ q_table_pkl = FileAbsent
    /\ now = 0
    /\ op = "input"
    /\ arg \in [goal : GoalTexts]
    /\ ret = <<>>
    /\ exc = "none"

TaskCategoryCall ==
    /\ op = "input"
    /\ op' = "task_category"
    /\ ret' = task_category(goal_keywords(arg.goal))
    /\ exc' = "none"
    /\ UNCHANGED <<q_table, attrs, q_table_pkl, now, arg>>

SpecCategory == InitCategory /\ [][TaskCategoryCall]_vars

(***************************************************************************)
(* SpecState: get_current_state applied to every user, goal and window of  *)
(* recent tasks (each task by its completed flag) of a bounded set.        *)
(***************************************************************************)
RecentTaskLists == UNION {[1..n -> BOOLEAN] : n \in 0..MaxTasks}

InitState ==
    /\ q_table = QTableNew
    /\ attrs = <<>>
    /\ q_table_pkl = FileAbsent
    /\ now = 0
    /\ op = "input"
    /\ arg \in [user_id : Users, goal : GoalPool, recent_tasks : RecentTaskLists]
    /\ ret = <<>>
    /\ exc = "none"

\* rl_handler.get_current_state(db, user_id, goal)
GetCurrentStateCall ==
    /\ op = "input"
    /\ op' = "get_current_state"
    /\ ret' = get_current_state(arg.user_id, arg.goal, CurrentHour,
                                arg.recent_tasks).state
    /\ exc' = get_current_state(arg.user_id, arg.goal, CurrentHour,
                                arg.recent_tasks).raised
    /\ UNCHANGED <<q_table, attrs, q_table_pkl, now, arg>>

SpecState == InitState /\ [][GetCurrentStateCall]_vars

(***************************************************************************)
(* Properties.                                                             *)
(***************************************************************************)
\* the handler holds a pending proposal
Pending == hasattr(attrs, "last_state") /\ hasattr(attrs, "last_action")

\* the pair (state, action) has an entry in the store
Stored(t, state, action) ==
    /\ DictHas(t.q_values, StateToKey(state))
    /\ DictHas(DictGet(t.q_values, StateToKey(state)), ActionToKey(action))

\* the value the store holds for (state, action), 0 when it holds none
QValueOf(t, state, action) ==
    IF Stored(t, state, action)
    THEN DictGet(DictGet(t.q_values, StateToKey(state)), ActionToKey(action))
    ELSE 0

\* the state keys and the (state key, action key) pairs the store holds
StoredKeys(t) ==
    [states |-> DictKeys(t.q_values),
     pairs |-> UNION {{<<t.q_values[i].k, ak>> : ak \in DictKeys(t.q_values[i].v)} :
                         i \in 1..Len(t.q_values)}]

FeedbackOps == {"process_feedback", "module_process_feedback"}


\* C1: a recommend call sets the pending (state, action) slot; the next
\* feedback call that finds it set consumes it and leaves the slot empty; a
\* feedback call that finds no pending proposal performs no Q-store update.
C1_PendingLifecycle ==
    [][/\ (op' = "recommend_action" => Pending')
       /\ (op' = "process_feedback" /\ Pending => ~Pending')
       /\ (op' \in FeedbackOps /\ ~Pending => q_table' = q_table)]_vars

\* C2: a feedback call made while no proposal is pending returns without
\* error and leaves the Q-values, the visit counters, the update history and
\* the persisted snapshot unchanged.
C2_FeedbackWithoutProposalIsNoOp ==
    [][(op' \in FeedbackOps /\ ~Pending) =>
          /\ exc' = "none"
          /\ q_table'.q_values = q_table.q_values
          /\ q_table'.state_visits = q_table.state_visits
          /\ q_table'.action_history = q_table.action_history
          /\ q_table_pkl' = q_table_pkl]_vars

\* a feedback call has returned, no proposal was pending, and the store and
\* the snapshot file it left alone are not the initial ones
C2_Witness ==
    /\ op = "process_feedback"
    /\ exc = "none"
    /\ ~Pending
    /\ q_table.q_values # <<>>
    /\ q_table.action_history # <<>>
    /\ q_table_pkl.exists

\* the update rule as the claim states it: current and max_next are read
\* from the store as it is before the call
ClaimedUpdate(t, state, action, reward, next_state) ==
    LET current == QValueOf(t, state, action)
        next_key == StateToKey(next_state[1])
        max_next ==
            IF DictHas(t.q_values, next_key) /\ DictGet(t.q_values, next_key) # <<>>
            THEN SetMax(DictValues(DictGet(t.q_values, next_key)))
            ELSE 0
    IN  IF next_state # <<>>
        THEN current + TimesLearningRate(
                 reward + TimesDiscountFactor(max_next) - current)
        ELSE current + TimesLearningRate(reward - current)

\* C3: update(state, action, reward, next_state) sets the stored value to
\* current + 0.1*(reward + 0.95*max_next - current) when a next state is
\* given, max_next being the largest value stored for the next state (0 if it
\* has none), and to current + 0.1*(reward - current) when none is given;
\* current is the value stored before the call (0 if absent).
C3_UpdateRule ==
    [][op' = "update_q_value" =>
          QValueOf(q_table', arg'.state, arg'.action) =
              ClaimedUpdate(q_table, arg'.state, arg'.action, arg'.reward,
                            arg'.next_state)]_vars

\* C4: get on a (state, action) pair that was never written returns 0.0 and
\* does not mutate the store: the state keys and action keys it holds are
\* the same after the call as before it.
C4_GetDoesNotMutate ==
    [][(op' = "get_q_value" /\ ~Stored(q_table, arg'.state, arg'.action)) =>
          /\ ret' = 0
          /\ StoredKeys(q_table') = StoredKeys(q_table)]_vars

\* C5: no operation other than update(s, a, ...) changes the value get(s, a)
\* returns: get, select, insights, save and the updates of other key pairs
\* leave it as it is.
C5_ValueStableUntilUpdate ==
    [][\A s \in StatePool, a \in ActionPool :
          \/ op' = "update_q_value" /\ arg'.state = s /\ arg'.action = a
          \/ QValueOf(q_table', s, a) = QValueOf(q_table, s, a)]_vars

\* an update has been applied to one key pair while another pair of the same
\* state holds a value other than 0
C5_Witness ==
    /\ op = "update_q_value"
    /\ \E a \in ActionPool :
          /\ a # arg.action
          /\ QValueOf(q_table, arg.state, a) # 0
          /\ QValueOf(q_table, arg.state, arg.action) # 0

\* C6: from an absent entry, repeated update(s, a, reward=1.0, None) yields
\* stored values that never decrease and never exceed 1.0.
C6_Convergence ==
    [][op' = "update_q_value" =>
          /\ QValueOf(q_table, arg.state, arg.action)
                 <= QValueOf(q_table', arg.state, arg.action)
          /\ QValueOf(q_table', arg.state, arg.action) <= QScale]_vars

\* more than STATE_HISTORY_SIZE updates were applied and the value is
\* within 0.01 of 1.0
C6_Witness ==
    /\ op = "update_q_value"
    /\ now > STATE_HISTORY_SIZE
    /\ QValueOf(q_table, arg.state, arg.action) > QScale - (QScale \div 100)
    /\ QValueOf(q_table, arg.state, arg.action) <= QScale

\* the reward as the claim states it
ClaimedReward(rating, completed, streak_days) ==
    Max2(0 - QScale,
         Min2(QScale,
              (rating - 3) * (QScale \div 2)
              + (IF completed THEN QScale \div 2 ELSE 0)
              + Min2(streak_days * (QScale \div 10), QScale \div 2)
              + (IF rating <= 2 THEN 0 - (QScale \div 2) ELSE 0)))

\* C7: for every rating in 1..5, completed flag and streak length >= 0 (of a
\* session and a user the data store holds) the reward computation returns
\* clamp((rating-3)*0.5 + (0.5 if completed) + min(streak*0.1, 0.5)
\* + (-0.5 if rating<=2), -1, 1), a value in [-1.0, 1.0].
C7_RewardFormula ==
    (op = "calculate_reward" /\ arg.rating \in 1..5
        /\ arg.session_found /\ arg.user_found) =>
        /\ exc = "none"
        /\ ret = ClaimedReward(arg.rating, arg.completed, arg.streak_days)
        /\ 0 - QScale <= ret /\ ret <= QScale

\* the value stored for (state, action) is strictly above every other value
\* stored for the state
StrictBest(t, state, action) ==
    /\ Stored(t, state, action)
    /\ \A e \in {DictGet(t.q_values, StateToKey(state))[i] :
                    i \in 1..Len(DictGet(t.q_values, StateToKey(state)))} :
          e.k # ActionToKey(action) => e.v < QValueOf(t, state, action)

\* C8: select on the exploitation branch (epsilon = 0), on a state for which
\* exactly one candidate action has a stored Q-value strictly higher than
\* every other action's value, returns that action.
C8_GreedySelect ==
    (op = "get_best_action" /\ ~arg.explore) =>
        \A i \in 1..Len(arg.possible_actions) :
            StrictBest(q_table, arg.state, arg.possible_actions[i]) =>
                exc = "none" /\ ret = <<arg.possible_actions[i]>>

\* the exploitation branch returned the strictly best of two stored actions,
\* which is not the first candidate
C8_Witness ==
    /\ op = "get_best_action"
    /\ ~arg.explore
    /\ Len(arg.possible_actions) >= 2
    /\ StrictBest(q_table, arg.state, arg.possible_actions[2])
    /\ arg.possible_actions[1] # arg.possible_actions[2]
    /\ Stored(q_table, arg.state, arg.possible_actions[1])
    /\ ret = <<arg.possible_actions[2]>>

\* C9: for a non-empty candidate list, select returns an element of
\* candidate_actions on every branch.
C9_SelectReturnsCandidate ==
    (op = "get_best_action" /\ arg.possible_actions # <<>>) =>
        /\ exc = "none"
        /\ \E i \in 1..Len(arg.possible_actions) :
              ret = <<arg.possible_actions[i]>>

\* the exploitation branch found entries for the state, none of the
\* candidates has the key of the highest-valued one, and a candidate came back
C9_Witness ==
    /\ op = "get_best_action"
    /\ ~arg.explore
    /\ arg.possible_actions # <<>>
    /\ DictHas(q_table.q_values, StateToKey(arg.state))
    /\ DictGet(q_table.q_values, StateToKey(arg.state)) # <<>>
    /\ \A i \in 1..Len(arg.possible_actions) :
          ActionToKey(arg.possible_actions[i])
              # MaxKey(DictGet(q_table.q_values, StateToKey(arg.state)))
    /\ \E i \in 1..Len(arg.possible_actions) : ret = <<arg.possible_actions[i]>>

\* C10: saving the store and loading it into a fresh handler (both without
\* an I/O failure) yields a store in which every (state, action) key maps to
\* the same value and every state key to the same visit count.
C10_SnapshotRoundTrip ==
    [][(op = "save_q_table" /\ arg.open_ok
            /\ op' = "EnhancedRLHandler" /\ arg'.read_ok) =>
          /\ q_table'.q_values = q_table.q_values
          /\ q_table'.state_visits = q_table.state_visits]_vars

\* C11: end to end, for a user with no history: recommend(goal "work report
\* due Friday") followed by submit_feedback(rating = 5) computes a reward of
\* at least 0.5 and raises the stored value of the proposed (state, action)
\* pair from 0.0 to a positive value (at least 0.1 * 0.5).
C11_FirstFeedbackRaisesValue ==
    [][(/\ op = "recommend_action" /\ arg.goal = {"work"}
        /\ q_table.q_values = <<>>
        /\ op' = "process_feedback" /\ arg'.rating = 5
        /\ arg'.user_id = arg.user_id) =>
          /\ Pending
          /\ QValueOf(q_table', DictGet(attrs, "last_state"),
                      DictGet(attrs, "last_action")) >= QScale \div 20]_vars

\* C12: the batch trainer replays every feedback row of the last 24 hours of
\* a user through the Q-update rule whether or not a proposal is pending:
\* each replayed row results in one update of the store (one more entry of
\* the update history, one more visit of a state).
C12_ReplayUpdatesStore ==
    [][(op' = "train_user_rl_model" /\ exc' = "none") =>
          /\ Len(q_table'.action_history)
                 = Len(q_table.action_history)
                   + Len(arg'.db.feedback[arg'.user_id].recent)
          /\ Len(arg'.db.feedback[arg'.user_id].recent) > 0
                 => q_table'.state_visits # <<>>]_vars

\* the users that meet the eligibility threshold
EligibleUsers(db) == {u \in Users : feedback_count(db, u) >= min_interactions}

\* C13: running the batch trainer when no user meets the eligibility
\* threshold does not raise and yields a report whose total_users_trained
\* is 0.
C13_NoEligibleUsersReport ==
    (op = "main" /\ EligibleUsers(arg.db) = {}) =>
        /\ exc = "none"
        /\ ret # <<>>
        /\ ret[1].total_users_trained = 0

\* C14: a failure while processing one user is caught and counted in that
\* user's error tally, and every remaining eligible user is still processed
\* and appears in the report of the run.
C14_PartialFailureIsolation ==
    (op = "main"
        /\ \E u, v \in EligibleUsers(arg.db) :
               u \in arg.db.fails /\ v \notin arg.db.fails) =>
        /\ exc \in {"none", "OSError"}
        /\ exc = "none" =>
              /\ ret # <<>>
              /\ \A u \in EligibleUsers(arg.db) :
                    \E i \in 1..Len(ret[1].user_results) :
                        /\ ret[1].user_results[i].user_id = u
                        /\ u \in arg.db.fails
                               => ret[1].user_results[i].errors >= 1

\* C15: when the snapshot write fails during the processing of the feedback
\* on a proposal (recommend, then submit_feedback with a rating in 1..5), the
\* failure is not raised to the caller, the Q-value update and the visit
\* increment made by that feedback are in effect, and the pending proposal is
\* cleared.
C15_SnapshotFailureKeepsUpdate ==
    [][(/\ op = "recommend_action"
        /\ op' \in FeedbackOps /\ arg'.user_id = arg.user_id
        /\ arg'.session_id # 0 /\ arg'.rating \in 1..5
        /\ PickleDump(q_table').raised # "none") =>
          /\ exc' = "none"
          /\ Len(q_table'.action_history) = Len(q_table.action_history) + 1
          /\ q_table'.state_visits # q_table.state_visits
          /\ ~Pending']_vars

\* C16: constructing a handler when the snapshot is absent, or when reading
\* it fails, does not raise and yields an empty store: no Q-values, no visit
\* counts, an empty history.
C16_LoadFailureGivesEmptyStore ==
    [][(/\ op' = "EnhancedRLHandler"
        /\ \/ ~q_table_pkl.exists
           \/ ~arg'.read_ok
           \/ PickleLoad(q_table_pkl.bytes).raised # "none") =>
          /\ exc' = "none"
          /\ q_table'.q_values = <<>>
          /\ q_table'.state_visits = <<>>
          /\ q_table'.action_history = <<>>]_vars

\* a handler was constructed over a snapshot file that exists and cannot be
\* loaded, after the store of the previous process had been updated
C16_Witness ==
    /\ op = "EnhancedRLHandler"
    /\ q_table_pkl.exists
    /\ PickleLoad(q_table_pkl.bytes).raised # "none"
    /\ now > 0
    /\ exc = "none"
    /\ q_table = QTableNew

\* C17: select called with an empty candidate list fails with an invalid-
\* argument error (ValueError) surfaced to the caller, on the exploration
\* branch and on the exploitation branch, and leaves the store unchanged.
C17_EmptyCandidatesRejected ==
    [][(op' = "get_best_action" /\ arg'.possible_actions = <<>>) =>
          /\ exc' = "ValueError"
          /\ ret' = <<>>
          /\ q_table' = q_table]_vars

\* the exploitation branch, on a state with stored values, was given the
\* empty list and raised
C17_Witness ==
    /\ op = "get_best_action"
    /\ arg.possible_actions = <<>>
    /\ ~arg.explore
    /\ DictHas(q_table.q_values, StateToKey(arg.state))
    /\ DictGet(q_table.q_values, StateToKey(arg.state)) # <<>>
    /\ exc = "ValueError"

\* C18: a rating outside 1..5 passed to the reward computation is rejected
\* as an invalid-argument error (ValueError), not turned into a reward.
C18_RatingOutOfRangeRejected ==
    (op = "calculate_reward" /\ arg.rating \notin 1..5) =>
        exc = "ValueError"

\* the values the store holds for the states of user_id
UserValues(t, user_id) ==
    UNION {DictValues(t.q_values[i].v) :
              i \in {j \in 1..Len(t.q_values) : t.q_values[j].k[1] = user_id}}

\* C19: insights(user_id) is computed only from the states whose key belongs
\* to user_id, takes the highest-valued action of each such state, and
\* reports confidence = min(q_value * 100, 95), never above 95; a user with
\* no recorded states gets an empty list.
C19_InsightsConfidence ==
    [][op' = "generate_rl_insights" =>
          /\ exc' = "none"
          /\ UserValues(q_table, arg'.user_id) = {} => ret' = <<>>
          /\ UserValues(q_table, arg'.user_id) # {} =>
                /\ Len(ret') = 1
                /\ ret'[1].confidence =
                       Min2(SetMax(UserValues(q_table, arg'.user_id)) * 100,
                            95 * QScale)
                /\ ret'[1].confidence <= 95 * QScale]_vars

\* the operations of the learning subsystem the host calls
HostOps ==
    {"recommend_action", "process_feedback", "module_process_feedback",
     "generate_rl_insights", "save_q_table", "EnhancedRLHandler"}

\* C20: no operation of the learning subsystem (recommend, submit_feedback,
\* insights, save, load) raises an exception to the host.
C20_NoOperationRaises ==
    op \in HostOps => exc = "none"

\* what the store holds under the state keys of one user
UserEntries(t, user_id) ==
    [q_values |-> SelectSeq(t.q_values, LAMBDA e : e.k[1] = user_id),
     state_visits |-> SelectSeq(t.state_visits, LAMBDA e : e.k[1] = user_id)]

ChangedStates(t1, t2) ==
    {k \in DictKeys(t1.q_values) \cup DictKeys(t2.q_values)
           \cup DictKeys(t1.state_visits) \cup DictKeys(t2.state_visits) :
        \/ DictHas(t1.q_values, k) # DictHas(t2.q_values, k)
        \/ DictHas(t1.state_visits, k) # DictHas(t2.state_visits, k)
        \/ /\ DictHas(t1.q_values, k) /\ DictHas(t2.q_values, k)
           /\ DictGet(t1.q_values, k) # DictGet(t2.q_values, k)
        \/ /\ DictHas(t1.state_visits, k) /\ DictHas(t2.state_visits, k)
           /\ DictGet(t1.state_visits, k) # DictGet(t2.state_visits, k)}

\* C22: the handler holds at most one pending proposal: when recommend is
\* called twice before any feedback, the second proposal replaces the first,
\* and the next feedback updates the (state, action) pair of the most recent
\* recommend and nothing else.
C22_LatestProposalWins ==
    [][(/\ op = "recommend_action"
        /\ op' = "process_feedback" /\ arg'.rating \in 1..5) =>
          /\ Pending
          /\ DictGet(attrs, "last_state").user_id = arg.user_id
          /\ <<DictGet(attrs, "last_action")>> = ret
          /\ ChangedStates(q_table, q_table')
                 = {StateToKey(DictGet(attrs, "last_state"))}
          /\ ~Pending']_vars

\* the visit counter of a state key, 0 when the store holds none
VisitsOf(t, state_key) ==
    IF DictHas(t.state_visits, state_key)
    THEN DictGet(t.state_visits, state_key) ELSE 0

\* the number of records of the update history made for a state key
UpdatesOf(t, state_key) ==
    Cardinality({i \in 1..Len(t.action_history) :
                    t.action_history[i].state = state_key})

\* C23: for every state key the visit counter never decreases, increases by
\* exactly 1 on each update call for that state and is unchanged by every
\* other operation on the store; it equals the number of updates applied to
\* that state (the records of the history, while fewer than 50 were made).
C23_VisitCounter ==
    [][\A s \in StatePool :
          /\ VisitsOf(q_table', StateToKey(s))
                 = VisitsOf(q_table, StateToKey(s))
                   + (IF op' = "update_q_value" /\ arg'.state = s THEN 1 ELSE 0)
          /\ VisitsOf(q_table, StateToKey(s)) = UpdatesOf(q_table, StateToKey(s))
          /\ VisitsOf(q_table', StateToKey(s))
                 = UpdatesOf(q_table', StateToKey(s))]_vars

\* an update brought the counter of its state to 2 or more while another
\* state has been visited too
C23_Witness ==
    /\ op = "update_q_value"
    /\ VisitsOf(q_table, StateToKey(arg.state)) >= 2
    /\ \E s \in StatePool :
          s # arg.state /\ VisitsOf(q_table, StateToKey(s)) >= 1

\* C24: the update history never holds more than 50 records; each update
\* appends one record (state key, action key, reward, timestamp) and, when
\* the history is full, the oldest is evicted: the history is the most
\* recent min(n, 50) of the n updates made, in order.
C24_HistoryBounded ==
    LET h == q_table.action_history
    IN  /\ Len(h) <= STATE_HISTORY_SIZE
        /\ Len(h) = Min2(now, STATE_HISTORY_SIZE)
        /\ \A i \in 1..Len(h) :
              h[i] = [state |-> StateToKey(arg.state),
                      action |-> ActionToKey(arg.action),
                      reward |-> QScale,
                      timestamp |-> now - Len(h) + i - 1]

\* more than 50 updates were made: the history is full and its oldest record
\* is not the first update
C24_Witness ==
    /\ op = "update_q_value"
    /\ now > STATE_HISTORY_SIZE + 1
    /\ Len(q_table.action_history) = STATE_HISTORY_SIZE
    /\ q_table.action_history[1].timestamp = now - STATE_HISTORY_SIZE
    /\ q_table.action_history[STATE_HISTORY_SIZE].timestamp = now - 1

\* the candidates whose stored value is the highest value stored for the state
TopCandidates(t, state, possible_actions) ==
    {i \in 1..Len(possible_actions) :
        /\ Stored(t, state, possible_actions[i])
        /\ QValueOf(t, state, possible_actions[i])
               = SetMax(DictValues(DictGet(t.q_values, StateToKey(state))))}

\* C25: on the exploitation branch of select, when several candidate actions
\* share the highest stored Q-value of the state, the one returned is the
\* first of them in the order of candidate_actions.
C25_TieFirstCandidate ==
    (/\ op = "get_best_action" /\ ~arg.explore
     /\ Cardinality({arg.possible_actions[i] :
                        i \in TopCandidates(q_table, arg.state,
                                            arg.possible_actions)}) >= 2) =>
        /\ exc = "none"
        /\ ret = <<arg.possible_actions[
                     CHOOSE i \in TopCandidates(q_table, arg.state,
                                                arg.possible_actions) :
                         \A j \in TopCandidates(q_table, arg.state,
                                                arg.possible_actions) : i <= j]>>

\* the keyword occurs in the lower-cased goal text
Occurs(kw, text) == Contains(Lower(text), KeywordText[kw])

C30_ComplexityThresholds ==
    op = "get_current_state" =>
        LET n == Len(arg.recent_tasks)
            c == Cardinality({i \in 1..n : arg.recent_tasks[i]})
        IN  /\ exc = "none"
            /\ ret # <<>>
            /\ ret[1].session_complexity =
                   IF n = 0 THEN "medium"
                   ELSE IF 10 * c > 8 * n THEN "high"
                   ELSE IF 10 * c < 5 * n THEN "low"
                   ELSE "medium"

\* success rate of a trained user as analyze_user_patterns computes it
\* (positive feedback over all sessions of the last 30 days), times QScale
SuccessRateOf(db, user_id) ==
    LET p == analyze_user_patterns(db, user_id).patterns
    IN  IF p = <<>> THEN 0
        ELSE (p[1].positive_feedback * QScale) \div p[1].total_sessions

\* C27: the exploration proposal of the batch trainer follows the aggregate
\* success rate of the trained users: above 0.8 it proposes to decrease
\* exploration, below 0.4 to increase it, otherwise it makes no exploration
\* proposal; no results give no proposal.
C27_ExplorationProposal ==
    (op = "optimize_rl_parameters" /\ arg.training_results # <<>>) =>
        LET n == Len(arg.training_results)
            rate == SumOf([i \in 1..n |->
                              SuccessRateOf(arg.db,
                                            arg.training_results[i].user_id)], n)
        IN  /\ 10 * rate > 8 * n * QScale =>
                   /\ DictHas(ret, "epsilon")
                   /\ DictGet(ret, "epsilon") = "decrease"
            /\ 10 * rate < 4 * n * QScale =>
                   /\ DictHas(ret, "epsilon")
                   /\ DictGet(ret, "epsilon") = "increase"
            /\ (10 * rate <= 8 * n * QScale /\ 10 * rate >= 4 * n * QScale) =>
                   ~DictHas(ret, "epsilon")

\* the sum of the visit counters of a store
TotalVisits(t) ==
    SumOf([i \in 1..Len(t.state_visits) |-> t.state_visits[i].v],
          Len(t.state_visits))

\* C28: the q_value_updates and feedback_processed a training of one user
\* reports equal the number of store updates the replay performed, that is
\* the increase of the visit counters of the store.
C28_StatsCountUpdates ==
    [][(op' = "train_user_rl_model" /\ exc' = "none") =>
          /\ ret'[1].q_value_updates =
                 TotalVisits(q_table') - TotalVisits(q_table)
          /\ ret'[1].feedback_processed =
                 TotalVisits(q_table') - TotalVisits(q_table)]_vars

\* the values the store holds
StoredValues(t) ==
    UNION {DictValues(t.q_values[i].v) : i \in 1..Len(t.q_values)}

\* 1 / (1 - DISCOUNT_FACTOR), in units of 1/QScale
QBound ==
    (DISCOUNT_FACTOR_DEN * QScale) \div (DISCOUNT_FACTOR_DEN - DISCOUNT_FACTOR_NUM)

\* C29: with rewards in [-1, 1] and the discount factor 0.95 the absolute
\* value of every stored Q-value never exceeds 1 / (1 - 0.95) = 20.
C29_QValueBounded ==
    \A v \in StoredValues(q_table) : v <= QBound /\ 0 - v <= QBound

\* a value that its own discounted maximum has carried past 19
C29_Witness ==
    /\ op = "update_q_value"
    /\ arg.next_state = <<arg.state>>
    /\ \E v \in StoredValues(q_table) : v > QBound - QScale

====
